---- MODULE Spec2Model ----
(***************************************************************************)
(* Music Studio backend (music-studio/backend/app.py): the analysis        *)
(* routes analyze and compare_songs, the song store they read (upload,     *)
(* delete_song), the numerical helpers they call, and the account,         *)
(* collaboration and beat pattern routes behind jwt_required.              *)
(*                                                                         *)
(* The handlers delegate the signal processing to librosa and numpy. The   *)
(* library calls are modelled by their documented results on a catalogue   *)
(* of audio files; numpy's float64 arithmetic is modelled as binary        *)
(* floating point with round-to-nearest-even and a FloatBits-bit           *)
(* significand.                                                            *)
(***************************************************************************)
EXTENDS Integers, Sequences, FiniteSets, TLC

\* ------------------------------------------------------------------ bounds
MaxUploads == 2      \* upload requests accepted by the store in one run
MaxReq == 1          \* requests in flight at the same time
FloatBits == 8       \* significand width of the modelled floating point
MaxEnergy == 1       \* largest entry of an enumerated pitch-class profile
MaxWorkers == 2      \* worker threads serving requests side by side
MaxSamples == 1100   \* longest signal of the frame count's own specification
MaxUsers == 2        \* register requests are accepted while fewer users exist
MaxTokens == 2       \* JWTs signed in one run
MaxClock == 24       \* hours the clock runs
TickHours == 12      \* hours between two looks at the clock
MaxCollabs == 1      \* Collaboration rows
MaxPatterns == 1     \* BeatPattern rows

\* --------------------------------------------------- floating point values
\* A finite value is m * 2^e with 2^(FloatBits-1) <= |m| < 2^FloatBits, or 0.
NaN == [k |-> "nan", m |-> 0, e |-> 0]
Zero == [k |-> "num", m |-> 0, e |-> 0]
Inf(sign) == [k |-> "inf", m |-> sign, e |-> 0]

Pow2(n) == 2 ^ n
Abs(i) == IF i < 0 THEN 0 - i ELSE i
Sgn(i) == IF i < 0 THEN 0 - 1 ELSE IF i = 0 THEN 0 ELSE 1

\* Round the positive rational (n / d) * 2^e to the nearest value, ties to even.
RECURSIVE RoundPos(_, _, _)
RoundPos(n, d, e) ==
    IF n >= d * Pow2(FloatBits) THEN RoundPos(n, 2 * d, e + 1)
    ELSE IF n < d * Pow2(FloatBits - 1) THEN RoundPos(2 * n, d, e - 1)
    ELSE LET q == n \div d
             r == n % d
             up == (2 * r > d) \/ (2 * r = d /\ q % 2 = 1)
             q1 == IF up THEN q + 1 ELSE q
         IN  IF q1 = Pow2(FloatBits)
             THEN [k |-> "num", m |-> Pow2(FloatBits - 1), e |-> e + 1]
             ELSE [k |-> "num", m |-> q1, e |-> e]

\* Round the rational (n / d) * 2^e, d > 0, any sign of n.
Round(n, d, e) ==
    IF n = 0 THEN Zero
    ELSE LET p == RoundPos(Abs(n), d, e)
         IN  [p EXCEPT !.m = Sgn(n) * p.m]

FromInt(i) == Round(i, 1, 0)
One == FromInt(1)
FNeg(a) == [a EXCEPT !.m = 0 - a.m]

\* a + b, correctly rounded. An operand below a quarter of the last place of
\* the other one cannot change the rounded sum.
FAdd(a, b) ==
    IF a.k = "nan" \/ b.k = "nan" THEN NaN
    ELSE IF a.k = "inf" /\ b.k = "inf" THEN (IF a.m = b.m THEN a ELSE NaN)
    ELSE IF a.k = "inf" THEN a
    ELSE IF b.k = "inf" THEN b
    ELSE IF a.m = 0 THEN b
    ELSE IF b.m = 0 THEN a
    ELSE IF a.e - b.e >= FloatBits + 3 THEN a
    ELSE IF b.e - a.e >= FloatBits + 3 THEN b
    ELSE LET lo == IF a.e < b.e THEN a.e ELSE b.e
         IN  Round(a.m * Pow2(a.e - lo) + b.m * Pow2(b.e - lo), 1, lo)

FSub(a, b) == FAdd(a, FNeg(b))

FMul(a, b) ==
    IF a.k = "nan" \/ b.k = "nan" THEN NaN
    ELSE IF a.k = "inf" \/ b.k = "inf"
         THEN (IF a.m = 0 \/ b.m = 0 THEN NaN ELSE Inf(Sgn(a.m) * Sgn(b.m)))
    ELSE Round(a.m * b.m, 1, a.e + b.e)

\* a / b; x / 0 is an infinity and 0 / 0 is NaN (numpy warns, it does not raise).
FDiv(a, b) ==
    IF a.k = "nan" \/ b.k = "nan" THEN NaN
    ELSE IF a.k = "inf" THEN (IF b.k = "inf" THEN NaN
                              ELSE Inf(a.m * (IF b.m < 0 THEN 0 - 1 ELSE 1)))
    ELSE IF b.k = "inf" THEN Zero
    ELSE IF b.m = 0 THEN (IF a.m = 0 THEN NaN ELSE Inf(Sgn(a.m)))
    ELSE Round(a.m * Sgn(b.m), Abs(b.m), a.e - b.e)

\* Largest s with s * s <= n.
ISqrt(n) == CHOOSE s \in 0..Pow2(FloatBits) : s * s <= n /\ n < (s + 1) * (s + 1)

\* sqrt(a), correctly rounded: scale the significand to 2*FloatBits bits with
\* an even exponent, take the integer root and round on the remainder.
FSqrt(a) ==
    IF a.k = "nan" THEN NaN
    ELSE IF a.k = "inf" THEN (IF a.m > 0 THEN a ELSE NaN)
    ELSE IF a.m = 0 THEN Zero
    ELSE IF a.m < 0 THEN NaN
    ELSE LET odd == (a.e + FloatBits) % 2 = 1
             sh == IF odd THEN FloatBits - 1 ELSE FloatBits
             n == a.m * Pow2(sh)
             e2 == a.e - sh
             s == ISqrt(n)
             s1 == IF n > s * s + s THEN s + 1 ELSE s
         IN  Round(s1, 1, e2 \div 2)

\* a < b as floats compare: every comparison with NaN is false.
FLess(a, b) ==
    IF a.k = "nan" \/ b.k = "nan" THEN FALSE
    ELSE IF a.k = "inf" \/ b.k = "inf"
         THEN (IF a.k = "inf" /\ b.k = "inf" THEN a.m < b.m
               ELSE IF a.k = "inf" THEN a.m < 0 ELSE b.m > 0)
    ELSE IF Sgn(a.m) # Sgn(b.m) THEN Sgn(a.m) < Sgn(b.m)
    ELSE IF a.m = 0 THEN FALSE
    ELSE IF a.m > 0 THEN (a.e < b.e \/ (a.e = b.e /\ a.m < b.m))
    ELSE (b.e < a.e \/ (a.e = b.e /\ a.m < b.m))

FGreater(a, b) == FLess(b, a)
FLeq(a, b) == a.k # "nan" /\ b.k # "nan" /\ ~FLess(b, a)

\* The decimal literal num/den as the nearest float (0.8 is Decimal(8, 10)).
Decimal(num, den) == Round(num, den, 0)

\* ------------------------------------------------------------------- numpy
PitchClasses == 1..12
keys == <<"C", "C#", "D", "D#", "E", "F", "F#", "G", "G#", "A", "A#", "B">>

\* np.sum(chroma, axis=1): the pitch-class profile, chroma frames summed over
\* time. The frames of the catalogue hold small integers, so the sum is exact.
RECURSIVE np_sum_axis1(_)
np_sum_axis1(chroma) ==
    IF chroma = <<>> THEN [i \in PitchClasses |-> 0]
    ELSE LET rest == np_sum_axis1(Tail(chroma))
         IN  [i \in PitchClasses |-> Head(chroma)[i] + rest[i]]

\* np.argmax: a left-to-right scan that replaces the running maximum only by
\* a strictly greater entry, so the first occurrence wins (1-based index here).
RECURSIVE ArgMaxScan_first_tie_loses(_, _, _)
ArgMaxScan_first_tie_loses(v, i, best) ==
    IF i > Len(v) THEN best
    ELSE ArgMaxScan_first_tie_loses(v, i + 1, IF v[i] >= v[best] THEN i ELSE best)

RECURSIVE ArgMaxScan(_, _, _)
ArgMaxScan(v, i, best) ==
    IF i > Len(v) THEN best
    ELSE ArgMaxScan(v, i + 1, IF v[i] > v[best] THEN i ELSE best)

np_argmax(v) == ArgMaxScan(v, 2, 1)

\* keys[np.argmax(np.sum(chroma, axis=1))]
key_of_profile(profile) == keys[np_argmax(profile)]

RECURSIVE FSum(_)
FSum(x) == IF x = <<>> THEN Zero ELSE FAdd(Head(x), FSum(Tail(x)))

\* np.dot of two rows: products accumulated in index order.
RECURSIVE np_dot(_, _, _, _)
np_dot(a, b, i, acc) ==
    IF i > Len(a) THEN acc
    ELSE np_dot(a, b, i + 1, FAdd(acc, FMul(a[i], b[i])))

\* The row of np.cov's X after "X -= avg[:, None]".
np_center(x) ==
    LET xf == [i \in 1..Len(x) |-> FromInt(x[i])]
        avg == FDiv(FSum(xf), FromInt(Len(x)))
    IN  [i \in 1..Len(x) |-> FSub(xf[i], avg)]

\* One entry of np.cov: dot(X, X.T) scaled by true_divide(1, N - 1).
np_cov(dx, dy) ==
    FMul(np_dot(dx, dy, 1, Zero), FDiv(One, FromInt(Len(dx) - 1)))

np_clip(c, lo, hi) ==
    IF c.k = "nan" THEN NaN
    ELSE IF FLess(c, lo) THEN lo
    ELSE IF FLess(hi, c) THEN hi
    ELSE c

\* np.corrcoef(x, y)[0, 1]: c /= stddev[:, None]; c /= stddev[None, :]; clip.
np_corrcoef(x, y) ==
    LET dx == np_center(x)
        dy == np_center(y)
        stddev0 == FSqrt(np_cov(dx, dx))
        stddev1 == FSqrt(np_cov(dy, dy))
    IN  np_clip(FDiv(FDiv(np_cov(dx, dy), stddev0), stddev1), FNeg(One), One)

\* ------------------------------------------------------------ match level
get_match_level_inclusive(similarity) ==
    IF FLeq(Decimal(8, 10), similarity) THEN "Very High"
    ELSE IF FLeq(Decimal(6, 10), similarity) THEN "High"
    ELSE IF FLeq(Decimal(4, 10), similarity) THEN "Medium"
    ELSE IF FLeq(Decimal(2, 10), similarity) THEN "Low"
    ELSE "Very Low"

get_match_level(similarity) ==
    IF FGreater(similarity, Decimal(8, 10)) THEN "Very High"
    ELSE IF FGreater(similarity, Decimal(6, 10)) THEN "High"
    ELSE IF FGreater(similarity, Decimal(4, 10)) THEN "Medium"
    ELSE IF FGreater(similarity, Decimal(2, 10)) THEN "Low"
    ELSE "Very Low"

\* ------------------------------------------------- audio files and librosa
\* Config.ALLOWED_EXTENSIONS
ALLOWED_EXTENSIONS == {"mp3", "wav", "ogg", "flac", "m4a"}

\* librosa's default hop_length and analysis window n_fft.
hop_length == 512
n_fft == 2048

Frame(pcs) == [i \in PitchClasses |-> IF i \in pcs THEN 1 ELSE 0]
CmajFrame == Frame({1, 5, 8})
AminFrame == Frame({1, 5, 10})
GmajFrame == Frame({3, 8, 12})
FmajFrame == Frame({1, 6, 10})
SilentFrame == Frame({})

\* The files a client may upload. decodable: librosa.load returns instead of
\* raising; sr, samples: native rate and length; lags: the onset
\* autocorrelation lags (in frames) the tempo estimate can settle on, 0 when
\* the onset envelope is all zero; chroma: what chroma_stft returns, one
\* max-normalised frame per hop (1 + samples \div hop_length frames), a frame
\* of zero energy staying zero.
AudioFiles == {"corrupt", "silence", "blip", "march", "ballad"}

Audio(name) ==
    CASE name = "corrupt" ->
           [decodable |-> FALSE, sr |-> 0, samples |-> 0, lags |-> {0}, chroma |-> <<>>]
      [] name = "silence" ->
           [decodable |-> TRUE, sr |-> 1024, samples |-> 2560, lags |-> {0},
            chroma |-> [t \in 1..6 |-> SilentFrame]]
      [] name = "blip" ->
           [decodable |-> TRUE, sr |-> 1024, samples |-> 1000, lags |-> {0, 1},
            chroma |-> <<CmajFrame, GmajFrame>>]
      [] name = "march" ->
           [decodable |-> TRUE, sr |-> 1024, samples |-> 2560, lags |-> {1},
            chroma |-> <<CmajFrame, CmajFrame, GmajFrame, GmajFrame, FmajFrame, FmajFrame>>]
      [] name = "ballad" ->
           [decodable |-> TRUE, sr |-> 1024, samples |-> 2560, lags |-> {4},
            chroma |-> <<CmajFrame, CmajFrame, AminFrame, AminFrame, AminFrame, GmajFrame>>]

\* Frames of librosa's short-time transforms for a signal of n samples, with
\* the defaults the handlers use (center=True pads n_fft \div 2 samples on
\* both sides): 1 + n \div hop_length.
stft_frames(n) == 1 + (n + 2 * (n_fft \div 2) - n_fft) \div hop_length

\* librosa.get_duration(y=y, sr=sr)
get_duration(name) == Round(Audio(name).samples, Audio(name).sr, 0)

\* librosa.beat.beat_track(y=y, sr=sr)[0]: 60 * sr / (hop_length * lag) for the
\* lag the estimate settles on; 0 BPM when no onset strength is detected.
beat_track_tempo(name, lag) ==
    IF lag = 0 THEN Zero
    ELSE Round(60 * Audio(name).sr, hop_length * lag, 0)

\* len(beat_frames): beats at frames 0, lag, 2 lag, ...; none without onsets.
beat_track_count(name, lag) ==
    IF lag = 0 THEN 0
    ELSE (Len(Audio(name).chroma) - 1) \div lag + 1

\* np.sum(librosa.feature.chroma_stft(y=y, sr=sr), axis=1)
profile_of(name) == np_sum_axis1(Audio(name).chroma)

\* ------------------------------------------------------------------- state
VARIABLES
    songs,      \* committed Song rows: id -> record
    files,      \* the upload folder: path -> uploaded audio
    nextId,     \* next Song.id the database hands out
    uploads,    \* files saved so far; the next uuid file name
    reqs,       \* the requests in flight, one per worker slot
    calc,       \* scratch of the numerical helpers' own specifications
    users,      \* committed User rows: id -> record
    sessions,   \* Flask-Login session cookie of each client: the user id, or 0
    tokens,     \* the JWTs generate_token has signed so far
    now,        \* the clock, in hours
    collaborations,  \* committed Collaboration rows: id -> record
    patterns    \* committed BeatPattern rows: id -> record

\* The tables and stores the song and analysis routes never write.
others == <<users, sessions, tokens, now, collaborations, patterns>>

vars == <<songs, files, nextId, uploads, reqs, calc, others>>

Users == {1, 2}
Slots == 1..MaxReq

\* app.run serves each request on a thread of its own.
Workers == 1..MaxWorkers
Stages == {"load1", "load2", "track", "similarity", "commit"}

\* A float-shaped marker for a field the response or the row does not carry.
Absent == [k |-> "absent", m |-> 0, e |-> 0]

\* No JWT: the response carries none, or the request has no Bearer header.
NoToken == [user_id |-> 0, username |-> "", exp |-> 0]

\* No Authorization header and no session cookie.
NoCreds == [hdr |-> "none", token |-> NoToken, client |-> 0]

NoResp ==
    [status |-> 0, error |-> "", detail |-> "", tempo |-> Absent, key |-> "",
     duration |-> Absent, sample_rate |-> 0, num_beats |-> 0 - 1,
     tempo2 |-> Absent, key2 |-> "", similarity |-> Absent, match_level |-> "",
     token |-> NoToken, user |-> 0, ids |-> {}]

\* jsonify({'error': f'{error}: {str(e)}'}), status
ErrorResp(status, error, detail) ==
    [NoResp EXCEPT !.status = status, !.error = error, !.detail = detail]

NoResult ==
    [tempo |-> Absent, key |-> "", duration |-> Absent, sample_rate |-> 0,
     num_beats |-> 0 - 1]

Idle ==
    [op |-> "idle", pc |-> "idle", user |-> 0, a |-> 0, b |-> 0,
     path1 |-> 0, path2 |-> 0, y1 |-> "", y2 |-> "", res |-> NoResult,
     resp |-> NoResp, runs |-> [s \in Stages |-> 0],
     filename |-> <<>>, creds |-> NoCreds, name |-> "", password |-> "",
     email |-> ""]

Begin(op, u, a, b) == [Idle EXCEPT !.op = op, !.user = u, !.a = a, !.b = b]
Finish(req, resp) == [req EXCEPT !.pc = "done", !.resp = resp]
Ran(req, stage) == [req EXCEPT !.runs[stage] = @ + 1]

\* Song.query.filter_by(id=song_id).first(), the owner not asked for.
SongOf_any_owner(song_id, u) == song_id \in DOMAIN songs

\* Song.query.filter_by(id=song_id, user_id=current_user.id).first()
SongOf(song_id, u) == song_id \in DOMAIN songs /\ songs[song_id].user_id = u

\* generate_password_hash(password, method='pbkdf2:sha256') and
\* check_password_hash(pwhash, password)
generate_password_hash(password) == <<"pbkdf2:sha256", password>>
check_password_hash(pwhash, password) == pwhash = generate_password_hash(password)

Usernames == {"ann", "bob"}
Passwords == {"pw1", "pw2"}
Clients == {1, 2}

\* The User rows after ann and bob have registered.
Registered ==
    [u \in Users |->
        [username |-> IF u = 1 THEN "ann" ELSE "bob",
         password |-> generate_password_hash(IF u = 1 THEN "pw1" ELSE "pw2"),
         email |-> ""]]

\* db.create_all() and an empty upload folder: no Song, Collaboration or
\* BeatPattern rows, nobody logged in, no request in flight.
InitStore ==
    /\ songs = <<>>
    /\ files = <<>>
    /\ nextId = 1
    /\ uploads = 0
    /\ sessions = [c \in Clients |-> 0]
    /\ tokens = {}
    /\ now = 0
    /\ collaborations = <<>>
    /\ patterns = <<>>

\* The song routes are entered with current_user already resolved: the
\* application with its two users registered.
InitApp ==
    /\ InitStore
    /\ users = Registered
    /\ reqs = [r \in Slots |-> Idle]

Init ==
    /\ InitApp
    /\ calc = [fn |-> "none"]

\* ------------------------------------------------------------ song routes
\* A file name as the sequence of its words and dots: <<>> is '',
\* <<"song", ".", "wav">> is 'song.wav'.
FileNames ==
    {<<>>, <<"song">>, <<".">>, <<".", "wav">>,
     <<"song", ".", "wav">>, <<"song", ".", "WAV">>, <<"song", ".", "txt">>,
     <<"song", ".", "wav", ".">>, <<"song", ".", "txt", ".">>,
     <<"song", ".", "txt", ".", "wav">>, <<"song", ".", "wav", ".", "txt">>}

\* str.strip("._") of werkzeug's secure_filename, on names of words and dots.
RECURSIVE strip_dots(_)
strip_dots(name) ==
    IF name = <<>> THEN <<>>
    ELSE IF Head(name) = "." THEN strip_dots(Tail(name))
    ELSE IF name[Len(name)] = "." THEN strip_dots(SubSeq(name, 1, Len(name) - 1))
    ELSE name

\* werkzeug.utils.secure_filename(file.filename)
secure_filename(filename) == strip_dots(filename)

\* '.' in original_filename
has_dot(name) == \E i \in DOMAIN name : name[i] = "."

\* original_filename.rsplit('.', 1)[1] with a call that takes the part after
\* the first dot instead of the last.
rsplit_takes_first_part(name) ==
    LET first == CHOOSE i \in DOMAIN name : name[i] = "." /\ \A j \in 1..(i - 1) : name[j] # "."
    IN  name[first + 1]

\* original_filename.rsplit('.', 1)[1]: the part after the last dot.
rsplit_ext(name) == name[Len(name)]

\* str.lower() on the extensions of FileNames
lower(ext) == IF ext = "WAV" THEN "wav" ELSE ext

\* upload: the file name checks, file.save, the Song row and its commit.
upload(r, u, filename, audio, commit_ok) ==
    /\ reqs[r].pc = "idle"
    /\ uploads < MaxUploads
    /\ LET req == [Begin("upload", u, 0, 0) EXCEPT !.filename = filename]
           original_filename == secure_filename(filename)
           file_ext == lower(rsplit_ext(original_filename))
           file_path == uploads + 1
           new_song == [user_id |-> u, file_path |-> file_path, ext |-> file_ext,
                        tempo |-> Absent, key |-> "", duration |-> Absent]
       IN  IF filename = <<>>
           THEN /\ reqs' = [reqs EXCEPT ![r] = Finish(req, ErrorResp(400, "No file selected", ""))]
                /\ UNCHANGED <<songs, files, nextId, uploads>>
           ELSE IF ~has_dot(original_filename)
           THEN /\ reqs' = [reqs EXCEPT ![r] = Finish(req, ErrorResp(400, "Invalid file format", ""))]
                /\ UNCHANGED <<songs, files, nextId, uploads>>
           ELSE IF file_ext \notin ALLOWED_EXTENSIONS
           THEN /\ reqs' = [reqs EXCEPT ![r] = Finish(req, ErrorResp(400, "File type not allowed", ""))]
                /\ UNCHANGED <<songs, files, nextId, uploads>>
           ELSE /\ files' = files @@ (file_path :> audio)
                /\ uploads' = uploads + 1
                /\ IF commit_ok
                   THEN /\ songs' = songs @@ (nextId :> new_song)
                        /\ nextId' = nextId + 1
                        /\ reqs' = [reqs EXCEPT ![r] =
                               Finish([req EXCEPT !.a = nextId], [NoResp EXCEPT !.status = 201])]
                   ELSE /\ UNCHANGED <<songs, nextId>>
                        /\ reqs' = [reqs EXCEPT ![r] =
                               Finish(req, ErrorResp(500, "Upload failed", "commit"))]
    /\ UNCHANGED <<calc, others>>

\* A flush that leaves the Collaboration rows of a deleted Song as they are.
delete_flush_keeps_collaborations(song_id) == TRUE

\* The flush of db.session.delete(song): the Song.collaborations backref has
\* no delete cascade, so the song_id of the song's Collaboration rows is set to
\* NULL, which the nullable=False column refuses.
delete_flush_ok(song_id) ==
    \A c \in DOMAIN collaborations : collaborations[c].song_id # song_id

\* delete_song: os.remove of the file, then the delete and its commit.
delete_song(r, u, song_id, commit_ok) ==
    /\ reqs[r].pc = "idle"
    /\ LET req == Begin("delete_song", u, song_id, 0)
           flush_ok == delete_flush_ok(song_id)
           failure == IF flush_ok THEN "commit" ELSE "IntegrityError"
       IN  IF ~SongOf(song_id, u)
           THEN /\ reqs' = [reqs EXCEPT ![r] = Finish(req, ErrorResp(404, "Song not found", ""))]
                /\ UNCHANGED <<songs, files>>
           ELSE /\ files' = [p \in DOMAIN files \ {songs[song_id].file_path} |-> files[p]]
                /\ IF commit_ok /\ flush_ok
                   THEN /\ songs' = [i \in DOMAIN songs \ {song_id} |-> songs[i]]
                        /\ reqs' = [reqs EXCEPT ![r] = Finish(req, [NoResp EXCEPT !.status = 200])]
                   ELSE /\ UNCHANGED songs
                        /\ reqs' = [reqs EXCEPT ![r] =
                               Finish(req, ErrorResp(500, "Delete failed", failure))]
    /\ UNCHANGED <<nextId, uploads, calc, others>>

\* song.to_dict(), as far as the analysis fields go.
song_to_dict(song_id) ==
    [NoResp EXCEPT !.status = 200,
                   !.tempo = songs[song_id].tempo,
                   !.key = songs[song_id].key,
                   !.duration = songs[song_id].duration,
                   !.user = songs[song_id].user_id,
                   !.ids = {song_id}]

\* get_song: the row as it is stored.
get_song(r, u, song_id) ==
    /\ reqs[r].pc = "idle"
    /\ LET req == Begin("get_song", u, song_id, 0)
       IN  reqs' = [reqs EXCEPT ![r] =
             IF ~SongOf(song_id, u)
             THEN Finish(req, ErrorResp(404, "Song not found", ""))
             ELSE Finish(req, song_to_dict(song_id))]
    /\ UNCHANGED <<songs, files, nextId, uploads, calc, others>>

\* -------------------------------------------------------- analysis routes
\* What the try block of analyze has computed when it reaches the commit.
analysis_of(name, lag) ==
    [tempo |-> beat_track_tempo(name, lag),
     key |-> key_of_profile(profile_of(name)),
     duration |-> get_duration(name),
     sample_rate |-> Audio(name).sr,
     num_beats |-> beat_track_count(name, lag)]

\* The Song rows after "song.duration = ...; song.tempo = ...; song.key = ...;
\* db.session.commit()": a commit that raises leaves the rows as they were,
\* the session's pending changes being dropped with the request.
commit_analysis_keeps_pending(rows, song_id, res, ok) ==
    IF song_id \in DOMAIN rows
    THEN [rows EXCEPT ![song_id].duration = res.duration,
                      ![song_id].tempo = res.tempo,
                      ![song_id].key = res.key]
    ELSE rows

\* The same with "song.key = key_name" left out.
commit_analysis_skips_key(rows, song_id, res, ok) ==
    IF ok /\ song_id \in DOMAIN rows
    THEN [rows EXCEPT ![song_id].duration = res.duration,
                      ![song_id].tempo = res.tempo]
    ELSE rows

commit_analysis(rows, song_id, res, ok) ==
    IF ok /\ song_id \in DOMAIN rows
    THEN [rows EXCEPT ![song_id].duration = res.duration,
                      ![song_id].tempo = res.tempo,
                      ![song_id].key = res.key]
    ELSE rows

\* analyze, up to the try block: the two 404 answers.
analyze_begin(r, u, song_id) ==
    /\ reqs[r].pc = "idle"
    /\ LET req == Begin("analyze", u, song_id, 0)
       IN  reqs' = [reqs EXCEPT ![r] =
             IF ~SongOf(song_id, u)
             THEN Finish(req, ErrorResp(404, "Song not found", ""))
             ELSE IF songs[song_id].file_path \notin DOMAIN files
             THEN Finish(req, ErrorResp(404, "Audio file not found", ""))
             ELSE [req EXCEPT !.pc = "load", !.path1 = songs[song_id].file_path]]
    /\ UNCHANGED <<songs, files, nextId, uploads, calc, others>>

\* y, sr = librosa.load(song.file_path, sr=None)
analyze_load(r) ==
    /\ reqs[r].op = "analyze" /\ reqs[r].pc = "load"
    /\ LET req == Ran(reqs[r], "load1")
       IN  reqs' = [reqs EXCEPT ![r] =
             IF req.path1 \notin DOMAIN files
             THEN Finish(req, ErrorResp(500, "Analysis failed", "FileNotFoundError"))
             ELSE IF ~Audio(files[req.path1]).decodable
             THEN Finish(req, ErrorResp(500, "Analysis failed", "decode"))
             ELSE [req EXCEPT !.pc = "track", !.y1 = files[req.path1]]]
    /\ UNCHANGED <<songs, files, nextId, uploads, calc, others>>

\* get_duration, beat_track, chroma_stft, argmax
analyze_track(r) ==
    /\ reqs[r].op = "analyze" /\ reqs[r].pc = "track"
    /\ \E lag \in Audio(reqs[r].y1).lags :
         reqs' = [reqs EXCEPT ![r] =
             [Ran(reqs[r], "track") EXCEPT !.pc = "commit",
                                           !.res = analysis_of(reqs[r].y1, lag)]]
    /\ UNCHANGED <<songs, files, nextId, uploads, calc, others>>

\* The update of the song, db.session.commit() and the response.
analyze_commit(r, commit_ok) ==
    /\ reqs[r].op = "analyze" /\ reqs[r].pc = "commit"
    /\ LET req == Ran(reqs[r], "commit")
           ok == commit_ok /\ req.a \in DOMAIN songs
       IN  /\ songs' = commit_analysis(songs, req.a, req.res, commit_ok)
           /\ reqs' = [reqs EXCEPT ![r] =
                IF ok
                THEN Finish(req, [NoResp EXCEPT !.status = 200,
                                                !.tempo = req.res.tempo,
                                                !.key = req.res.key,
                                                !.duration = req.res.duration,
                                                !.sample_rate = req.res.sample_rate,
                                                !.num_beats = req.res.num_beats])
                ELSE Finish(req, ErrorResp(500, "Analysis failed", "commit"))]
    /\ UNCHANGED <<files, nextId, uploads, calc, others>>

\* compare_songs, up to the try block.
compare_begin(r, u, song1_id, song2_id) ==
    /\ reqs[r].pc = "idle"
    /\ LET req == Begin("compare", u, song1_id, song2_id)
       IN  reqs' = [reqs EXCEPT ![r] =
             IF ~SongOf(song1_id, u) \/ ~SongOf(song2_id, u)
             THEN Finish(req, ErrorResp(404, "One or both songs not found", ""))
             ELSE [req EXCEPT !.pc = "load1",
                              !.path1 = songs[song1_id].file_path,
                              !.path2 = songs[song2_id].file_path]]
    /\ UNCHANGED <<songs, files, nextId, uploads, calc, others>>

\* y1, sr1 = librosa.load(song1.file_path, sr=None)
compare_load1(r) ==
    /\ reqs[r].op = "compare" /\ reqs[r].pc = "load1"
    /\ LET req == Ran(reqs[r], "load1")
       IN  reqs' = [reqs EXCEPT ![r] =
             IF req.path1 \notin DOMAIN files
             THEN Finish(req, ErrorResp(500, "Comparison failed", "FileNotFoundError"))
             ELSE IF ~Audio(files[req.path1]).decodable
             THEN Finish(req, ErrorResp(500, "Comparison failed", "decode"))
             ELSE [req EXCEPT !.pc = "load2", !.y1 = files[req.path1]]]
    /\ UNCHANGED <<songs, files, nextId, uploads, calc, others>>

\* y2, sr2 = librosa.load(song2.file_path, sr=None)
compare_load2(r) ==
    /\ reqs[r].op = "compare" /\ reqs[r].pc = "load2"
    /\ LET req == Ran(reqs[r], "load2")
       IN  reqs' = [reqs EXCEPT ![r] =
             IF req.path2 \notin DOMAIN files
             THEN Finish(req, ErrorResp(500, "Comparison failed", "FileNotFoundError"))
             ELSE IF ~Audio(files[req.path2]).decodable
             THEN Finish(req, ErrorResp(500, "Comparison failed", "decode"))
             ELSE [req EXCEPT !.pc = "similarity", !.y2 = files[req.path2]]]
    /\ UNCHANGED <<songs, files, nextId, uploads, calc, others>>

\* The 'comparison' object of the response.
comparison_of(y1, lag1, y2, lag2) ==
    LET similarity == np_corrcoef(profile_of(y1), profile_of(y2))
    IN  [NoResp EXCEPT !.status = 200,
                       !.tempo = beat_track_tempo(y1, lag1),
                       !.key = key_of_profile(profile_of(y1)),
                       !.tempo2 = beat_track_tempo(y2, lag2),
                       !.key2 = key_of_profile(profile_of(y2)),
                       !.similarity = similarity,
                       !.match_level = get_match_level(similarity)]

\* beat_track and chroma_stft of both tracks, np.corrcoef, get_match_level.
compare_similarity(r) ==
    /\ reqs[r].op = "compare" /\ reqs[r].pc = "similarity"
    /\ \E lag1 \in Audio(reqs[r].y1).lags, lag2 \in Audio(reqs[r].y2).lags :
         reqs' = [reqs EXCEPT ![r] =
             Finish(Ran(Ran(reqs[r], "track"), "similarity"),
                    comparison_of(reqs[r].y1, lag1, reqs[r].y2, lag2))]
    /\ UNCHANGED <<songs, files, nextId, uploads, calc, others>>

\* The client has read the response; the worker takes the next request.
respond(r) ==
    /\ reqs[r].pc = "done"
    /\ reqs' = [reqs EXCEPT ![r] = Idle]
    /\ UNCHANGED <<songs, files, nextId, uploads, calc, others>>

SongIds == 1..MaxUploads

Next ==
    \/ \E r \in Slots, u \in Users, filename \in FileNames, audio \in AudioFiles,
          commit_ok \in BOOLEAN : upload(r, u, filename, audio, commit_ok)
    \/ \E r \in Slots, u \in Users, song_id \in SongIds, commit_ok \in BOOLEAN :
          delete_song(r, u, song_id, commit_ok)
    \/ \E r \in Slots, u \in Users, song_id \in SongIds : get_song(r, u, song_id)
    \/ \E r \in Slots, u \in Users, song_id \in SongIds : analyze_begin(r, u, song_id)
    \/ \E r \in Slots : analyze_load(r)
    \/ \E r \in Slots : analyze_track(r)
    \/ \E r \in Slots, commit_ok \in BOOLEAN : analyze_commit(r, commit_ok)
    \/ \E r \in Slots, u \in Users, song1_id \in SongIds, song2_id \in SongIds :
          compare_begin(r, u, song1_id, song2_id)
    \/ \E r \in Slots : compare_load1(r)
    \/ \E r \in Slots : compare_load2(r)
    \/ \E r \in Slots : compare_similarity(r)
    \/ \E r \in Slots : respond(r)

Spec == Init /\ [][Next]_vars

TypeOK ==
    /\ DOMAIN songs \subseteq SongIds
    /\ \A r \in Slots : reqs[r].pc \in {"idle", "load", "load1", "load2", "track",
                                        "similarity", "commit", "done"}

\* ------------------------------------------------------- authentication
\* Config.JWT_EXPIRATION_HOURS
JWT_EXPIRATION_HOURS == 24

\* A Bearer value that is not a JWT signed with SECRET_KEY.
Garbage == [user_id |-> 0, username |-> "garbage", exp |-> 0]

\* generate_token with timedelta(hours=expires_in) left out of 'exp'.
generate_token_no_lifetime(rows, user_id) ==
    [user_id |-> user_id, username |-> rows[user_id].username, exp |-> now]

\* generate_token(user): the payload; the signature is what `tokens` records.
generate_token(rows, user_id) ==
    [user_id |-> user_id, username |-> rows[user_id].username,
     exp |-> now + JWT_EXPIRATION_HOURS]

\* current_user.is_authenticated: the session cookie names a user that
\* load_user still finds.
is_authenticated(client) ==
    client \in Clients /\ sessions[client] \in DOMAIN users

\* jwt_required with the session fallback skipped for a request that carries a
\* Bearer header.
jwt_required_ignores_bad_token(creds) ==
    IF creds.hdr = "bearer" /\ creds.token \in tokens /\ creds.token.exp > now
       /\ creds.token.user_id \in DOMAIN users
    THEN [status |-> 200, user |-> creds.token.user_id, error |-> ""]
    ELSE IF is_authenticated(creds.client)
    THEN [status |-> 200, user |-> sessions[creds.client], error |-> ""]
    ELSE [status |-> 401, user |-> 0, error |-> "Authentication required"]

\* jwt_required: the user the wrapped handler runs as, or the 401 answer.
jwt_required(creds) ==
    LET session ==
          IF is_authenticated(creds.client)
          THEN [status |-> 200, user |-> sessions[creds.client], error |-> ""]
          ELSE [status |-> 401, user |-> 0, error |-> "Authentication required"]
    IN  IF creds.hdr = "bearer"
        THEN IF creds.token \notin tokens
             THEN [status |-> 401, user |-> 0, error |-> "Invalid token"]
             ELSE IF creds.token.exp <= now
             THEN [status |-> 401, user |-> 0, error |-> "Token has expired"]
             ELSE IF creds.token.user_id \in DOMAIN users
             THEN [status |-> 200, user |-> creds.token.user_id, error |-> ""]
             ELSE session
        ELSE session

\* The request as it enters a wrapped handler, and the decorator's refusal.
Enter(op, creds, a) ==
    [Begin(op, jwt_required(creds).user, a, 0) EXCEPT !.creds = creds]
Refuse(op, creds, a) ==
    Finish(Enter(op, creds, a), ErrorResp(401, jwt_required(creds).error, ""))

\* login_user(user) / logout_user(): the cookie of the client, if it keeps one.
login_user(client, user_id) ==
    IF client \in Clients THEN [sessions EXCEPT ![client] = user_id] ELSE sessions
logout_user(client) ==
    IF client \in Clients THEN [sessions EXCEPT ![client] = 0] ELSE sessions

\* User.query.filter_by(username=username).first()
user_by_name(username) ==
    IF \E id \in DOMAIN users : users[id].username = username
    THEN CHOOSE id \in DOMAIN users : users[id].username = username
    ELSE 0

\* The unique=True columns of User with the constraint on username dropped.
unique_email_only(row) ==
    row.email = "" \/ \A id \in DOMAIN users : users[id].email # row.email

\* The unique=True columns of User: username, and email when it is not NULL.
unique_ok(row) ==
    /\ \A id \in DOMAIN users : users[id].username # row.username
    /\ row.email = "" \/ \A id \in DOMAIN users : users[id].email # row.email

\* register, up to the try block: the two 400 answers.
register_check(w, client, username, password, email) ==
    /\ reqs[w].pc = "idle"
    /\ Cardinality(DOMAIN users) < MaxUsers
    /\ Cardinality(tokens) < MaxTokens
    /\ LET req == [Begin("register", 0, 0, 0) EXCEPT
                      !.name = username, !.password = password, !.email = email,
                      !.creds = [NoCreds EXCEPT !.client = client]]
       IN  reqs' = [reqs EXCEPT ![w] =
             IF username = "" \/ password = ""
             THEN Finish(req, ErrorResp(400, "Username and password are required", ""))
             ELSE IF user_by_name(username) # 0
             THEN Finish(req, ErrorResp(400, "Username already exists", ""))
             ELSE [req EXCEPT !.pc = "insert"]]
    /\ UNCHANGED <<songs, files, nextId, uploads, calc, others>>

\* register: db.session.add, commit, login_user and the 201 response.
register_commit(w, commit_ok) ==
    /\ reqs[w].op = "register" /\ reqs[w].pc = "insert"
    /\ LET req == reqs[w]
           new_user == [username |-> req.name,
                        password |-> generate_password_hash(req.password),
                        email |-> req.email]
           id == Cardinality(DOMAIN users) + 1
           rows == users @@ (id :> new_user)
           failure == IF unique_ok(new_user) THEN "commit" ELSE "IntegrityError"
       IN  IF commit_ok /\ unique_ok(new_user)
           THEN /\ users' = rows
                /\ sessions' = login_user(req.creds.client, id)
                /\ tokens' = tokens \cup {generate_token(rows, id)}
                /\ reqs' = [reqs EXCEPT ![w] =
                       Finish([req EXCEPT !.user = id],
                              [NoResp EXCEPT !.status = 201, !.user = id,
                                             !.token = generate_token(rows, id)])]
           ELSE /\ reqs' = [reqs EXCEPT ![w] =
                       Finish(req, ErrorResp(500, "Registration failed", failure))]
                /\ UNCHANGED <<users, sessions, tokens>>
    /\ UNCHANGED <<songs, files, nextId, uploads, calc, now, collaborations, patterns>>

\* login
login(w, client, username, password) ==
    /\ reqs[w].pc = "idle"
    /\ Cardinality(tokens) < MaxTokens
    /\ LET req == [Begin("login", 0, 0, 0) EXCEPT
                      !.name = username, !.password = password,
                      !.creds = [NoCreds EXCEPT !.client = client]]
           id == user_by_name(username)
       IN  IF username = "" \/ password = ""
           THEN /\ reqs' = [reqs EXCEPT ![w] =
                       Finish(req, ErrorResp(400, "Username and password are required", ""))]
                /\ UNCHANGED <<sessions, tokens>>
           ELSE IF id # 0 /\ check_password_hash(users[id].password, password)
           THEN /\ sessions' = login_user(client, id)
                /\ tokens' = tokens \cup {generate_token(users, id)}
                /\ reqs' = [reqs EXCEPT ![w] =
                       Finish([req EXCEPT !.user = id],
                              [NoResp EXCEPT !.status = 200, !.user = id,
                                             !.token = generate_token(users, id)])]
           ELSE /\ reqs' = [reqs EXCEPT ![w] =
                       Finish(req, ErrorResp(401, "Invalid credentials", ""))]
                /\ UNCHANGED <<sessions, tokens>>
    /\ UNCHANGED <<songs, files, nextId, uploads, calc, users, now, collaborations, patterns>>

\* logout
logout(w, creds) ==
    /\ reqs[w].pc = "idle"
    /\ IF jwt_required(creds).status = 401
       THEN /\ reqs' = [reqs EXCEPT ![w] = Refuse("logout", creds, 0)]
            /\ UNCHANGED sessions
       ELSE /\ sessions' = logout_user(creds.client)
            /\ reqs' = [reqs EXCEPT ![w] =
                   Finish(Enter("logout", creds, 0), [NoResp EXCEPT !.status = 200])]
    /\ UNCHANGED <<songs, files, nextId, uploads, calc, users, tokens, now,
                   collaborations, patterns>>

\* get_current_user: /api/me
get_current_user(w, creds) ==
    /\ reqs[w].pc = "idle"
    /\ reqs' = [reqs EXCEPT ![w] =
          IF jwt_required(creds).status = 401
          THEN Refuse("get_current_user", creds, 0)
          ELSE Finish(Enter("get_current_user", creds, 0),
                      [NoResp EXCEPT !.status = 200, !.user = jwt_required(creds).user])]
    /\ UNCHANGED <<songs, files, nextId, uploads, calc, others>>

\* get_songs: /api/songs
get_songs(w, creds) ==
    /\ reqs[w].pc = "idle"
    /\ reqs' = [reqs EXCEPT ![w] =
          IF jwt_required(creds).status = 401
          THEN Refuse("get_songs", creds, 0)
          ELSE Finish(Enter("get_songs", creds, 0),
                      [NoResp EXCEPT !.status = 200,
                          !.ids = {id \in DOMAIN songs :
                                     songs[id].user_id = jwt_required(creds).user}])]
    /\ UNCHANGED <<songs, files, nextId, uploads, calc, others>>

\* -------------------------------------- collaboration and pattern routes
\* The primary key the database gives the next row of a table.
next_id(table) ==
    IF DOMAIN table = {} THEN 1
    ELSE 1 + CHOOSE m \in DOMAIN table : \A i \in DOMAIN table : i <= m

\* The verse of a collaborate request: '' when the body carries none.
Verses == {"", "la la"}

\* collaborate (POST)
collaborate(w, creds, song_id, content, commit_ok) ==
    /\ reqs[w].pc = "idle"
    /\ Cardinality(DOMAIN collaborations) < MaxCollabs
    /\ LET who == jwt_required(creds)
           req == Enter("collaborate", creds, song_id)
           collaboration == [song_id |-> song_id, user_id |-> who.user]
       IN  IF who.status = 401
           THEN /\ reqs' = [reqs EXCEPT ![w] = Refuse("collaborate", creds, song_id)]
                /\ UNCHANGED collaborations
           ELSE IF ~SongOf(song_id, who.user)
           THEN /\ reqs' = [reqs EXCEPT ![w] = Finish(req, ErrorResp(404, "Song not found", ""))]
                /\ UNCHANGED collaborations
           ELSE IF content = ""
           THEN /\ reqs' = [reqs EXCEPT ![w] =
                       Finish(req, ErrorResp(400, "Verse content is required", ""))]
                /\ UNCHANGED collaborations
           ELSE IF commit_ok
           THEN /\ collaborations' =
                       collaborations @@ (next_id(collaborations) :> collaboration)
                /\ reqs' = [reqs EXCEPT ![w] =
                       Finish(req, [NoResp EXCEPT !.status = 201,
                                                  !.ids = {next_id(collaborations)}])]
           ELSE /\ reqs' = [reqs EXCEPT ![w] =
                       Finish(req, ErrorResp(500, "Collaboration failed", "commit"))]
                /\ UNCHANGED collaborations
    /\ UNCHANGED <<songs, files, nextId, uploads, calc, users, sessions, tokens, now, patterns>>

\* get_collaborations (GET), also behind the alias route
get_collaborations(w, creds, song_id) ==
    /\ reqs[w].pc = "idle"
    /\ LET who == jwt_required(creds)
           req == Enter("get_collaborations", creds, song_id)
       IN  reqs' = [reqs EXCEPT ![w] =
             IF who.status = 401 THEN Refuse("get_collaborations", creds, song_id)
             ELSE IF ~SongOf(song_id, who.user)
             THEN Finish(req, ErrorResp(404, "Song not found", ""))
             ELSE Finish(req, [NoResp EXCEPT !.status = 200,
                       !.ids = {c \in DOMAIN collaborations :
                                  collaborations[c].song_id = song_id}])]
    /\ UNCHANGED <<songs, files, nextId, uploads, calc, others>>

\* BeatPattern.query.filter_by(user_id=current_user.id).all()
patterns_of(u) == {i \in DOMAIN patterns : patterns[i].user_id = u}

\* handle_patterns (GET)
list_patterns(w, creds) ==
    /\ reqs[w].pc = "idle"
    /\ reqs' = [reqs EXCEPT ![w] =
          IF jwt_required(creds).status = 401 THEN Refuse("list_patterns", creds, 0)
          ELSE Finish(Enter("list_patterns", creds, 0),
                      [NoResp EXCEPT !.status = 200,
                                     !.ids = patterns_of(jwt_required(creds).user)])]
    /\ UNCHANGED <<songs, files, nextId, uploads, calc, others>>

\* handle_patterns (POST)
create_pattern(w, creds, commit_ok) ==
    /\ reqs[w].pc = "idle"
    /\ Cardinality(DOMAIN patterns) < MaxPatterns
    /\ LET who == jwt_required(creds)
           req == Enter("create_pattern", creds, 0)
       IN  IF who.status = 401
           THEN /\ reqs' = [reqs EXCEPT ![w] = Refuse("create_pattern", creds, 0)]
                /\ UNCHANGED patterns
           ELSE IF commit_ok
           THEN /\ patterns' = patterns @@ (next_id(patterns) :> [user_id |-> who.user])
                /\ reqs' = [reqs EXCEPT ![w] =
                       Finish(req, [NoResp EXCEPT !.status = 201,
                                                  !.ids = {next_id(patterns)}])]
           ELSE /\ reqs' = [reqs EXCEPT ![w] =
                       Finish(req, ErrorResp(500, "Failed to save pattern", "commit"))]
                /\ UNCHANGED patterns
    /\ UNCHANGED <<songs, files, nextId, uploads, calc, users, sessions, tokens, now,
                   collaborations>>

\* delete_pattern
delete_pattern(w, creds, pattern_id, commit_ok) ==
    /\ reqs[w].pc = "idle"
    /\ LET who == jwt_required(creds)
           req == Enter("delete_pattern", creds, pattern_id)
       IN  IF who.status = 401
           THEN /\ reqs' = [reqs EXCEPT ![w] = Refuse("delete_pattern", creds, pattern_id)]
                /\ UNCHANGED patterns
           ELSE IF pattern_id \notin patterns_of(who.user)
           THEN /\ reqs' = [reqs EXCEPT ![w] =
                       Finish(req, ErrorResp(404, "Pattern not found", ""))]
                /\ UNCHANGED patterns
           ELSE IF commit_ok
           THEN /\ patterns' = [i \in DOMAIN patterns \ {pattern_id} |-> patterns[i]]
                /\ reqs' = [reqs EXCEPT ![w] = Finish(req, [NoResp EXCEPT !.status = 200])]
           ELSE /\ reqs' = [reqs EXCEPT ![w] =
                       Finish(req, ErrorResp(500, "Delete failed", "commit"))]
                /\ UNCHANGED patterns
    /\ UNCHANGED <<songs, files, nextId, uploads, calc, users, sessions, tokens, now,
                   collaborations>>

\* Time passes.
tick ==
    /\ now < MaxClock
    /\ now' = now + TickHours
    /\ UNCHANGED <<songs, files, nextId, uploads, reqs, calc, users, sessions, tokens,
                   collaborations, patterns>>

\* ------------------------------------------ the account routes on their own
\* What a client can send: no header, a header of another scheme, or a Bearer
\* header with a token the server signed or with garbage; with or without the
\* session cookie of a client in `cookies`.
Credentials(cookies) ==
    {[hdr |-> h, token |-> NoToken, client |-> c] : h \in {"none", "basic"}, c \in cookies}
    \cup {[hdr |-> "bearer", token |-> t, client |-> c] :
             t \in tokens \cup {Garbage}, c \in cookies}

\* db.create_all(): no users yet.
InitAuth ==
    /\ InitStore
    /\ users = <<>>
    /\ reqs = [r \in Slots |-> Idle]
    /\ calc = [fn |-> "none"]

NextAuth ==
    \/ \E r \in Slots, client \in {0, 1}, username \in Usernames \cup {""},
          password \in Passwords \cup {""} :
          register_check(r, client, username, password, "")
    \/ \E r \in Slots, commit_ok \in BOOLEAN : register_commit(r, commit_ok)
    \/ \E r \in Slots, client \in {0, 1}, username \in Usernames \cup {""},
          password \in Passwords \cup {""} :
          login(r, client, username, password)
    \/ \E r \in Slots, creds \in Credentials({0, 1}) : logout(r, creds)
    \/ \E r \in Slots, creds \in Credentials({0, 1}) : get_current_user(r, creds)
    \/ \E r \in Slots, creds \in Credentials({0, 1}) : get_songs(r, creds)
    \/ \E r \in Slots, creds \in Credentials({0, 1}), commit_ok \in BOOLEAN :
          create_pattern(r, creds, commit_ok)
    \/ tick
    \/ \E r \in Slots : respond(r)

SpecAuth == InitAuth /\ [][NextAuth]_vars

\* register requests side by side, each on a thread of its own.
InitRegister ==
    /\ InitStore
    /\ users = <<>>
    /\ reqs = [w \in Workers |-> Idle]
    /\ calc = [fn |-> "none"]

NextRegister ==
    \/ \E w \in Workers, client \in {0, 1}, username \in Usernames \cup {""},
          password \in {"pw1"}, email \in {"", "ann@example.com"} :
          register_check(w, client, username, password, email)
    \/ \E w \in Workers, commit_ok \in BOOLEAN : register_commit(w, commit_ok)
    \/ \E w \in Workers : respond(w)

SpecRegister == InitRegister /\ [][NextRegister]_vars

\* ------------------------------------------- two owners and their records
\* ann and bob hold the tokens their registrations returned.
InitOwner ==
    /\ songs = <<>>
    /\ files = <<>>
    /\ nextId = 1
    /\ uploads = 0
    /\ users = Registered
    /\ sessions = [c \in Clients |-> 0]
    /\ now = 0
    /\ tokens = {[user_id |-> u, username |-> Registered[u].username,
                  exp |-> JWT_EXPIRATION_HOURS] : u \in Users}
    /\ collaborations = <<>>
    /\ patterns = <<>>
    /\ reqs = [r \in Slots |-> Idle]
    /\ calc = [fn |-> "none"]

\* The requests of a logged-in user: a Bearer token, no cookie.
TokenCredentials == {[hdr |-> "bearer", token |-> t, client |-> 0] : t \in tokens}

NextOwner ==
    \/ \E r \in Slots, u \in Users, commit_ok \in BOOLEAN :
          upload(r, u, <<"song", ".", "wav">>, "march", commit_ok)
    \/ \E r \in Slots, u \in Users, song_id \in SongIds, commit_ok \in BOOLEAN :
          delete_song(r, u, song_id, commit_ok)
    \/ \E r \in Slots, u \in Users, song_id \in SongIds : get_song(r, u, song_id)
    \/ \E r \in Slots, creds \in TokenCredentials : get_songs(r, creds)
    \/ \E r \in Slots, u \in Users, song_id \in SongIds : analyze_begin(r, u, song_id)
    \/ \E r \in Slots : analyze_load(r)
    \/ \E r \in Slots : analyze_track(r)
    \/ \E r \in Slots, commit_ok \in BOOLEAN : analyze_commit(r, commit_ok)
    \/ \E r \in Slots, u \in Users, song1_id \in SongIds, song2_id \in SongIds :
          compare_begin(r, u, song1_id, song2_id)
    \/ \E r \in Slots : compare_load1(r)
    \/ \E r \in Slots : compare_load2(r)
    \/ \E r \in Slots : compare_similarity(r)
    \/ \E r \in Slots, creds \in TokenCredentials, song_id \in SongIds,
          content \in Verses, commit_ok \in BOOLEAN :
          collaborate(r, creds, song_id, content, commit_ok)
    \/ \E r \in Slots, creds \in TokenCredentials, song_id \in SongIds :
          get_collaborations(r, creds, song_id)
    \/ \E r \in Slots, creds \in TokenCredentials : list_patterns(r, creds)
    \/ \E r \in Slots, creds \in TokenCredentials, commit_ok \in BOOLEAN :
          create_pattern(r, creds, commit_ok)
    \/ \E r \in Slots, creds \in TokenCredentials, pattern_id \in 1..MaxPatterns,
          commit_ok \in BOOLEAN :
          delete_pattern(r, creds, pattern_id, commit_ok)
    \/ \E r \in Slots : respond(r)

SpecOwner == InitOwner /\ [][NextOwner]_vars

\* ------------------------------------- analysis requests side by side
\* ann has uploaded 'march' and 'blip'; bob has no songs.
InitConc ==
    /\ users = Registered
    /\ sessions = [c \in Clients |-> 0]
    /\ tokens = {}
    /\ now = 0
    /\ collaborations = <<>>
    /\ patterns = <<>>
    /\ nextId = 3
    /\ uploads = 2
    /\ songs = (1 :> [user_id |-> 1, file_path |-> 1, ext |-> "wav",
                      tempo |-> Absent, key |-> "", duration |-> Absent])
             @@ (2 :> [user_id |-> 1, file_path |-> 2, ext |-> "wav",
                      tempo |-> Absent, key |-> "", duration |-> Absent])
    /\ files = (1 :> "march") @@ (2 :> "blip")
    /\ reqs = [w \in Workers |-> Idle]
    /\ calc = [fn |-> "none"]

NextConc ==
    \/ \E w \in Workers, u \in Users, song_id \in SongIds : analyze_begin(w, u, song_id)
    \/ \E w \in Workers : analyze_load(w)
    \/ \E w \in Workers : analyze_track(w)
    \/ \E w \in Workers, commit_ok \in BOOLEAN : analyze_commit(w, commit_ok)
    \/ \E w \in Workers, u \in Users, song1_id \in SongIds, song2_id \in SongIds :
          compare_begin(w, u, song1_id, song2_id)
    \/ \E w \in Workers : compare_load1(w)
    \/ \E w \in Workers : compare_load2(w)
    \/ \E w \in Workers : compare_similarity(w)
    \/ \E w \in Workers : respond(w)

SpecConc == InitConc /\ [][NextConc]_vars

\* ------------------------------------------- the frame count on its own
InitFrames ==
    /\ InitApp
    /\ \E n \in 1..MaxSamples :
         calc = [fn |-> "frames", samples |-> n, spectrogram |-> 0, chromagram |-> 0]

\* librosa.beat.beat_track(y=y, sr=sr): the spectrogram behind the onset envelope
beat_track_frames ==
    /\ calc.fn = "frames" /\ calc.spectrogram = 0
    /\ calc' = [calc EXCEPT !.spectrogram = stft_frames(calc.samples)]
    /\ UNCHANGED <<songs, files, nextId, uploads, reqs, others>>

\* librosa.feature.chroma_stft(y=y, sr=sr)
chroma_stft_frames ==
    /\ calc.fn = "frames" /\ calc.chromagram = 0
    /\ calc' = [calc EXCEPT !.chromagram = stft_frames(calc.samples)]
    /\ UNCHANGED <<songs, files, nextId, uploads, reqs, others>>

NextFrames == beat_track_frames \/ chroma_stft_frames

SpecFrames == InitFrames /\ [][NextFrames]_vars

\* ------------------------------------------- the key estimate on its own
\* Every 12-entry profile with entries in 0..MaxEnergy, given to the key
\* computation of analyze and to the one of compare_songs.
Profiles == [PitchClasses -> 0..MaxEnergy]

InitKey ==
    /\ InitApp
    /\ \E p \in Profiles :
         calc = [fn |-> "key", profile |-> p, analyze_key |-> "", compare_key |-> ""]

\* analyze: key_name = keys[np.argmax(np.sum(chroma, axis=1))]
analyze_key ==
    /\ calc.fn = "key" /\ calc.analyze_key = ""
    /\ calc' = [calc EXCEPT !.analyze_key = key_of_profile(calc.profile)]
    /\ UNCHANGED <<songs, files, nextId, uploads, reqs, others>>

\* compare_songs: keys[key_idx1] with key_idx1 = np.argmax(np.sum(chroma1, axis=1))
compare_key ==
    /\ calc.fn = "key" /\ calc.compare_key = ""
    /\ calc' = [calc EXCEPT !.compare_key = keys[np_argmax(calc.profile)]]
    /\ UNCHANGED <<songs, files, nextId, uploads, reqs, others>>

NextKey == analyze_key \/ compare_key

SpecKey == InitKey /\ [][NextKey]_vars

\* --------------------------------------------- the match level on its own
\* The floats of [-1, 1] down to 2^-4 in magnitude, zero, and NaN.
Scores ==
    {[k |-> "num", m |-> sg * m, e |-> e] :
        sg \in {0 - 1, 1},
        m \in Pow2(FloatBits - 1)..(Pow2(FloatBits) - 1),
        e \in (0 - FloatBits - 4)..(0 - FloatBits)}
    \cup {Zero, One, FNeg(One), NaN}

InitLevel ==
    /\ InitApp
    /\ \E x \in Scores : calc = [fn |-> "level", similarity |-> x, match_level |-> ""]

\* 'match_level': get_match_level(similarity)
apply_match_level ==
    /\ calc.fn = "level" /\ calc.match_level = ""
    /\ calc' = [calc EXCEPT !.match_level = get_match_level(calc.similarity)]
    /\ UNCHANGED <<songs, files, nextId, uploads, reqs, others>>

NextLevel == apply_match_level

SpecLevel == InitLevel /\ [][NextLevel]_vars

\* ------------------------------------------------------------ properties
Done(r, op) == reqs[r].op = op /\ reqs[r].pc = "done"
Succeeded(r, op) == Done(r, op) /\ reqs[r].resp.status = 200

\* a > b for finite floats, by exact integer arithmetic on a common exponent.
ExactGt(a, b) ==
    LET lo == IF a.e < b.e THEN a.e ELSE b.e
    IN  a.m * Pow2(a.e - lo) > b.m * Pow2(b.e - lo)

KeyNames == {keys[i] : i \in PitchClasses}

\* C1: every successful analyze response carries a tempo in the closed range
\* [40, 240] BPM (never 0) and a key among the 12 pitch-class names.
C1_TempoAndKeyInRange ==
    \A r \in Slots : Succeeded(r, "analyze") =>
        /\ reqs[r].resp.tempo.k = "num"
        /\ ~ExactGt(FromInt(40), reqs[r].resp.tempo)
        /\ ~ExactGt(reqs[r].resp.tempo, FromInt(240))
        /\ reqs[r].resp.key \in KeyNames

\* C2: the key returned by analyze and by compare_songs is the pitch class of
\* the maximum-energy bin of the profile, the lowest index among equal maxima.
C2_KeyIsLowestMaximum ==
    \A route \in {"analyze_key", "compare_key"} :
        (calc.fn = "key" /\ calc[route] # "") =>
            \E i \in PitchClasses :
                /\ calc[route] = keys[i]
                /\ \A j \in PitchClasses : calc.profile[j] <= calc.profile[i]
                /\ \A j \in 1..(i - 1) : calc.profile[j] < calc.profile[i]

\* C2 witness: both routes have answered for a profile whose maximum is shared
\* by several bins, the first of them not being C.
C2_Witness ==
    /\ calc.fn = "key" /\ calc.analyze_key # "" /\ calc.compare_key # ""
    /\ \E i, j \in PitchClasses :
          /\ 1 < i /\ i < j
          /\ calc.profile[i] = calc.profile[j]
          /\ \A h \in PitchClasses : calc.profile[h] <= calc.profile[i]
          /\ \A h \in 1..(i - 1) : calc.profile[h] < calc.profile[i]
          /\ calc.analyze_key = keys[i]

\* C3: the label is decided by strict comparisons against 0.8, 0.6, 0.4 and
\* 0.2, a score equal to a threshold takes the label below it, and every score
\* in [-1, 1] gets exactly one of the five labels.
C3_MatchLevelThresholds ==
    (calc.fn = "level" /\ calc.match_level # "" /\ calc.similarity.k = "num") =>
        LET x == calc.similarity
            above(n) == ExactGt(x, Decimal(n, 10))
        IN  /\ calc.match_level \in {"Very High", "High", "Medium", "Low", "Very Low"}
            /\ calc.match_level = "Very High" <=> above(8)
            /\ calc.match_level = "High" <=> (~above(8) /\ above(6))
            /\ calc.match_level = "Medium" <=> (~above(6) /\ above(4))
            /\ calc.match_level = "Low" <=> (~above(4) /\ above(2))
            /\ calc.match_level = "Very Low" <=> ~above(2)
            /\ x = Decimal(6, 10) => calc.match_level = "Medium"
            /\ x = Decimal(2, 10) => calc.match_level = "Very Low"

\* C3 witness: the score that is exactly the threshold 0.6 has been labelled.
C3_Witness ==
    /\ calc.fn = "level"
    /\ calc.similarity = Decimal(6, 10)
    /\ calc.match_level = "Medium"

\* All 12 entries equal: the correlation with such a profile is undefined.
ZeroVariance(profile) == \A i, j \in PitchClasses : profile[i] = profile[j]

\* No energy in any frame.
IsSilent(name) == \A t \in DOMAIN Audio(name).chroma : Audio(name).chroma[t] = SilentFrame

\* Shorter than one analysis window.
IsShort(name) == Audio(name).samples < n_fft

\* C4: comparing a song with itself, its profile not being constant, answers
\* similarity exactly 1.0 and the label "Very High".
C4_SelfSimilarityIsOne ==
    \A r \in Slots :
        (/\ Succeeded(r, "compare")
         /\ reqs[r].a = reqs[r].b
         /\ ~ZeroVariance(profile_of(reqs[r].y1))) =>
            /\ reqs[r].resp.similarity = One
            /\ reqs[r].resp.match_level = "Very High"

\* C5: a successful compare of (A, B) carries the similarity and the label that
\* compare of (B, A) computes, with the two per-track summaries swapped.
C5_CompareSymmetric ==
    \A r \in Slots : Succeeded(r, "compare") =>
        \E lag1 \in Audio(reqs[r].y1).lags, lag2 \in Audio(reqs[r].y2).lags :
            LET back == comparison_of(reqs[r].y2, lag2, reqs[r].y1, lag1)
            IN  /\ back.similarity = reqs[r].resp.similarity
                /\ back.match_level = reqs[r].resp.match_level
                /\ back.tempo = reqs[r].resp.tempo2 /\ back.key = reqs[r].resp.key2
                /\ back.tempo2 = reqs[r].resp.tempo /\ back.key2 = reqs[r].resp.key

\* C6: the similarity of every successful compare is a number of [-1, 1],
\* never NaN.
C6_SimilarityInRange ==
    \A r \in Slots : Succeeded(r, "compare") =>
        /\ reqs[r].resp.similarity.k = "num"
        /\ ~ExactGt(reqs[r].resp.similarity, One)
        /\ ~ExactGt(FNeg(One), reqs[r].resp.similarity)

\* C7: a compare that reaches the similarity computation with a zero-variance
\* profile on either side does not succeed: no similarity, no match level.
C7_DegenerateProfileIsError ==
    \A r \in Slots :
        (/\ Done(r, "compare")
         /\ reqs[r].runs["similarity"] > 0
         /\ \/ ZeroVariance(profile_of(reqs[r].y1))
            \/ ZeroVariance(profile_of(reqs[r].y2))) =>
            /\ reqs[r].resp.status # 200
            /\ reqs[r].resp.similarity = Absent
            /\ reqs[r].resp.match_level = ""

\* C8: an analyze whose beat tracking ran on a silent signal, or on one shorter
\* than an analysis window, does not succeed: no tempo of zero, no empty beat
\* list in a 200 response.
C8_SilentOrShortIsError ==
    \A r \in Slots :
        (/\ Done(r, "analyze")
         /\ reqs[r].runs["track"] > 0
         /\ (IsSilent(reqs[r].y1) \/ IsShort(reqs[r].y1))) =>
            reqs[r].resp.status # 200

\* Only 'error' in the body.
ErrorOnly(resp) == resp = ErrorResp(resp.status, resp.error, resp.detail)

\* C9: a step of analyze or compare_songs changes the Song rows only when it
\* ends the request with a 200 response; a request that ends otherwise answers
\* with an error and message alone and its last step leaves the rows alone.
C9_AllOrNothing ==
    [][\A r \in Slots :
          (reqs'[r] # reqs[r] /\ reqs'[r].op \in {"analyze", "compare"}) =>
              /\ songs' # songs => (reqs'[r].pc = "done" /\ reqs'[r].resp.status = 200)
              /\ (reqs'[r].pc = "done" /\ reqs'[r].resp.status # 200) =>
                    (ErrorOnly(reqs'[r].resp) /\ reqs'[r].resp.error # "" /\ songs' = songs)
              /\ (reqs'[r].pc = "done" /\ reqs'[r].resp.status = 200) =>
                    (reqs'[r].resp.tempo # Absent /\ reqs'[r].resp.key # "")]_vars

\* C9 witness: an analyze has failed at its commit, after tempo, key and
\* duration were computed, and the song it analysed is still unanalysed.
C9_Witness ==
    \E r \in Slots :
        /\ Done(r, "analyze")
        /\ reqs[r].resp.status = 500
        /\ reqs[r].resp.detail = "commit"
        /\ reqs[r].res.tempo # Absent
        /\ reqs[r].a \in DOMAIN songs
        /\ songs[reqs[r].a].tempo = Absent
        /\ songs[reqs[r].a].key = ""

\* The failure a finished request ran into, by the spec's taxonomy; "" if none.
FailureKind(req) ==
    IF req.runs["load1"] > 0 /\ req.y1 = "" THEN "DecodeError"
    ELSE IF req.runs["load2"] > 0 /\ req.y2 = "" THEN "DecodeError"
    ELSE IF req.runs["track"] > 0 /\ req.op = "analyze"
            /\ (IsSilent(req.y1) \/ IsShort(req.y1)) THEN "InsufficientSignalError"
    ELSE IF req.runs["similarity"] > 0
            /\ (ZeroVariance(profile_of(req.y1)) \/ ZeroVariance(profile_of(req.y2)))
         THEN "DegenerateProfileError"
    ELSE ""

\* What the response tells the caller about the failure.
ReportedKind(resp) ==
    IF resp.status = 200 THEN ""
    ELSE IF resp.detail \in {"decode", "FileNotFoundError"} THEN "DecodeError"
    ELSE resp.detail

\* C10: no stage of a request runs twice, and the response of analyze and of
\* compare_songs names the kind of failure the request ran into.
C10_FailureKindReported ==
    \A r \in Slots :
        (Done(r, "analyze") \/ Done(r, "compare")) =>
            /\ \A st \in Stages : reqs[r].runs[st] <= 1
            /\ FailureKind(reqs[r]) # "" => ReportedKind(reqs[r].resp) = FailureKind(reqs[r])

\* The analysis fields of a Song row.
Cached(row) == <<row.tempo, row.key, row.duration>>

\* C11: a successful analyze leaves the tempo, key and duration of its
\* response on the Song row; the three fields of a row that stays change in no
\* other step; get_song returns them as stored, running no analysis stage.
C11_AnalysisIsStored ==
    [][/\ \A r \in Slots :
            (reqs'[r] # reqs[r] /\ reqs'[r].op = "analyze"
             /\ reqs'[r].pc = "done" /\ reqs'[r].resp.status = 200) =>
                /\ reqs'[r].a \in DOMAIN songs'
                /\ Cached(songs'[reqs'[r].a]) =
                      <<reqs'[r].resp.tempo, reqs'[r].resp.key, reqs'[r].resp.duration>>
                /\ reqs'[r].resp.key # ""
       /\ \A id \in DOMAIN songs \cap DOMAIN songs' :
            Cached(songs'[id]) # Cached(songs[id]) =>
                \E r \in Slots :
                    /\ reqs'[r] # reqs[r] /\ reqs'[r].op = "analyze" /\ reqs'[r].a = id
                    /\ reqs'[r].pc = "done" /\ reqs'[r].resp.status = 200
       /\ \A r \in Slots :
            (reqs'[r] # reqs[r] /\ reqs'[r].op = "get_song"
             /\ reqs'[r].resp.status = 200) =>
                /\ <<reqs'[r].resp.tempo, reqs'[r].resp.key, reqs'[r].resp.duration>> =
                      Cached(songs[reqs'[r].a])
                /\ \A st \in Stages : reqs'[r].runs[st] = 0
                /\ songs' = songs]_vars

\* C11 witness: get_song has returned the tempo and key an earlier analyze
\* stored.
C11_Witness ==
    \E r \in Slots :
        /\ Succeeded(r, "get_song")
        /\ reqs[r].resp.tempo.k = "num"
        /\ reqs[r].resp.key \in KeyNames
        /\ reqs[r].resp.tempo = songs[reqs[r].a].tempo

\* The extension the upload decides on: the last part of the sanitised name,
\* in lower case; "" when the name has no dot.
ExtensionOf(filename) ==
    LET name == secure_filename(filename)
    IN  IF \E i \in DOMAIN name : name[i] = "." THEN lower(name[Len(name)]) ELSE ""

\* C12: an upload whose name has no extension, or one outside the allow-list,
\* is answered 400 with a message naming the reason, and stores no file and no
\* Song row; every Song row has an allow-listed extension.
C12_UnsupportedFormatRejected ==
    [][/\ \A r \in Slots :
            (reqs'[r] # reqs[r] /\ reqs'[r].op = "upload" /\ reqs'[r].pc = "done"
             /\ ExtensionOf(reqs'[r].filename) \notin ALLOWED_EXTENSIONS) =>
                /\ reqs'[r].resp.status = 400
                /\ reqs'[r].resp.error \in
                      {"No file selected", "Invalid file format", "File type not allowed"}
                /\ songs' = songs /\ files' = files /\ uploads' = uploads
       /\ \A id \in DOMAIN songs' : songs'[id].ext \in ALLOWED_EXTENSIONS]_vars

\* C12 witness: 'song.wav.txt' has been refused with nothing stored, and
\* 'song.WAV' is on record as a wav file.
C12_Witness ==
    /\ \E r \in Slots :
          /\ Done(r, "upload")
          /\ reqs[r].filename = <<"song", ".", "wav", ".", "txt">>
          /\ reqs[r].resp.status = 400
    /\ DOMAIN files = DOMAIN songs
    /\ \E id \in DOMAIN songs : songs[id].ext = "wav"

\* C19: the audio file of every Song row is in the upload folder.
C19_DeleteSongAtomic ==
    \A id \in DOMAIN songs : songs[id].file_path \in DOMAIN files

\* C20: every file of the upload folder is the file of exactly one Song row:
\* an upload that is rejected or fails leaves no file behind, a successful one
\* adds one file and the one row that refers to it.
C20_UploadAtomic ==
    \A p \in DOMAIN files :
        Cardinality({id \in DOMAIN songs : songs[id].file_path = p}) = 1

\* Request q is open and has written the analysis fields of Song row s.
Wrote(q, s) ==
    /\ reqs[q].op = "analyze" /\ reqs[q].pc = "done"
    /\ reqs[q].resp.status = 200 /\ reqs[q].a = s

\* The file behind Song row s.
FileOf(s) == files[songs[s].file_path]

\* C13: with analyze and compare requests running side by side, every 200
\* response is what the request computes from its files alone, and no request
\* writes or loads a Song row that another request still open has written.
C13_RequestsIndependent ==
    [][\A r \in DOMAIN reqs :
          reqs'[r] # reqs[r] =>
            /\ (reqs'[r].op = "analyze" /\ reqs'[r].pc = "done"
                 /\ reqs'[r].resp.status = 200) =>
                  \E lag \in Audio(FileOf(reqs'[r].a)).lags :
                      LET alone == analysis_of(FileOf(reqs'[r].a), lag)
                      IN  /\ reqs'[r].resp.tempo = alone.tempo
                          /\ reqs'[r].resp.key = alone.key
                          /\ reqs'[r].resp.duration = alone.duration
                          /\ reqs'[r].resp.num_beats = alone.num_beats
            /\ (reqs'[r].op = "compare" /\ reqs'[r].pc = "done"
                 /\ reqs'[r].resp.status = 200) =>
                  \E lag1 \in Audio(FileOf(reqs'[r].a)).lags,
                     lag2 \in Audio(FileOf(reqs'[r].b)).lags :
                      reqs'[r].resp =
                        comparison_of(FileOf(reqs'[r].a), lag1, FileOf(reqs'[r].b), lag2)
            /\ \A q \in DOMAIN reqs \ {r}, s \in DOMAIN songs :
                  Wrote(q, s) =>
                    /\ ~(reqs[r].pc = "commit" /\ reqs[r].a = s
                          /\ reqs'[r].resp.status = 200)
                    /\ ~(reqs[r].pc = "idle" /\ reqs'[r].op \in {"analyze", "compare"}
                          /\ reqs'[r].resp.status # 404
                          /\ s \in {reqs'[r].a, reqs'[r].b})]_vars

\* ceil(n / h) for positive h
CeilDiv(n, h) == (n + h - 1) \div h

\* C14: a signal of N samples has ceil(N / hop_length) spectrogram frames, and
\* its chromagram has as many frames as its spectrogram.
C14_FrameCount ==
    calc.fn = "frames" =>
        /\ calc.spectrogram # 0 => calc.spectrogram = CeilDiv(calc.samples, hop_length)
        /\ calc.chromagram # 0 => calc.chromagram = CeilDiv(calc.samples, hop_length)
        /\ (calc.spectrogram # 0 /\ calc.chromagram # 0) =>
              calc.chromagram = calc.spectrogram

\* C15: register (201) and login (200) return a token the server has signed
\* for the user of that name, not yet expired; a login with the username and
\* password of a User row answers 200, any other login with both fields given
\* answers 401 without a token; /api/me and /api/songs answer 200 to a Bearer
\* token that was returned, is unexpired and whose user exists.
C15_CredentialsAuthenticate ==
    [][\A r \in Slots :
          (reqs'[r] # reqs[r] /\ reqs'[r].pc = "done") =>
            LET q == reqs'[r]
                c == q.creds
                known == \E id \in DOMAIN users :
                           /\ users[id].username = q.name
                           /\ users[id].password = generate_password_hash(q.password)
            IN  /\ ((q.op = "register" /\ q.resp.status = 201)
                    \/ (q.op = "login" /\ q.resp.status = 200)) =>
                      /\ q.resp.token \in tokens'
                      /\ q.resp.token.user_id \in DOMAIN users'
                      /\ users'[q.resp.token.user_id].username = q.name
                      /\ users'[q.resp.token.user_id].password =
                            generate_password_hash(q.password)
                      /\ q.resp.token.exp > now
                /\ (q.op = "login" /\ q.name # "" /\ q.password # "") =>
                      IF known THEN q.resp.status = 200
                      ELSE q.resp.status = 401 /\ q.resp.token = NoToken
                /\ (q.op \in {"get_current_user", "get_songs"}
                    /\ c.hdr = "bearer" /\ c.token \in tokens
                    /\ c.token.exp > now /\ c.token.user_id \in DOMAIN users) =>
                      /\ q.resp.status = 200
                      /\ q.user = c.token.user_id]_vars

\* C15 witness: /api/songs has answered 200 to a Bearer token alone, hours
\* after the token was returned and before it expires.
C15_Witness ==
    \E r \in Slots :
        /\ Succeeded(r, "get_songs")
        /\ reqs[r].creds.hdr = "bearer" /\ reqs[r].creds.client = 0
        /\ reqs[r].creds.token \in tokens
        /\ reqs[r].creds.token.exp = JWT_EXPIRATION_HOURS
        /\ now > 0 /\ now < JWT_EXPIRATION_HOURS

\* C16: no two User rows share a username; a register for a username that
\* exists is answered 400 'Username already exists' and adds no row; a User
\* row is added only by a register that answers 201.
C16_UsernamesUnique ==
    [][/\ \A i, j \in DOMAIN users' :
            i # j => users'[i].username # users'[j].username
       /\ \A w \in DOMAIN reqs :
            (/\ reqs[w].pc = "idle" /\ reqs'[w].op = "register"
             /\ reqs'[w].name # "" /\ reqs'[w].password # ""
             /\ \E id \in DOMAIN users : users[id].username = reqs'[w].name) =>
                /\ reqs'[w].pc = "done"
                /\ reqs'[w].resp.status = 400
                /\ reqs'[w].resp.error = "Username already exists"
                /\ users' = users
       /\ users' # users =>
            \E w \in DOMAIN reqs :
                /\ reqs'[w] # reqs[w] /\ reqs'[w].op = "register"
                /\ reqs'[w].resp.status = 201
                /\ DOMAIN users' = DOMAIN users \cup {reqs'[w].resp.user}
                /\ users'[reqs'[w].resp.user].username = reqs'[w].name]_vars

\* C16 witness: two registers of the same new username ran side by side; one
\* answered 201, the other was refused by the database at its commit, and one
\* row has the name.
C16_Witness ==
    \E w1, w2 \in DOMAIN reqs :
        /\ w1 # w2
        /\ Done(w1, "register") /\ Done(w2, "register")
        /\ reqs[w1].name = reqs[w2].name
        /\ reqs[w1].resp.status = 201
        /\ reqs[w2].resp.status = 500
        /\ reqs[w2].resp.detail = "IntegrityError"
        /\ Cardinality({id \in DOMAIN users : users[id].username = reqs[w1].name}) = 1

\* Song s exists and belongs to somebody other than u.
OwnedByOther(u, s) == s \in DOMAIN songs /\ songs[s].user_id # u

SongRoutes ==
    {"get_song", "delete_song", "analyze", "compare", "collaborate", "get_collaborations"}

WrappedRoutes == {"logout", "get_current_user", "get_songs", "create_pattern"}

C21_CollaborationsReferenceSongs ==
    \A c \in DOMAIN collaborations :
        /\ collaborations[c].song_id \in DOMAIN songs
        /\ songs[collaborations[c].song_id].user_id = collaborations[c].user_id

\* C21 witness: the owner's delete_song of a song with a collaboration has been
\* refused by the database, and the collaboration still has its song.
C21_Witness ==
    \E r \in Slots, c \in DOMAIN collaborations :
        /\ Done(r, "delete_song")
        /\ reqs[r].resp.status = 500
        /\ reqs[r].resp.detail = "IntegrityError"
        /\ collaborations[c].song_id = reqs[r].a
        /\ reqs[r].a \in DOMAIN songs
        /\ songs[reqs[r].a].user_id = reqs[r].user

====
